---- MODULE Spec2Model ----
(***************************************************************************)
(* Model of experiments/data_collection.py: write_json_log (makedirs,      *)
(* join, open "w", json.dump indent=2, print) over a small filesystem, the *)
(* four producers, and main's fixed sequence of four writes.               *)
(*                                                                         *)
(* Text is a sequence of one-character strings.  A path string is a        *)
(* sequence of tokens: "/" is the separator, "." and ".." the special      *)
(* entries, any other token a separator-free name.  A Python value is a    *)
(* record tagged by t: "str", "int", "float" (one decimal digit, held as   *)
(* tenths), "bool", "none", "list", "tuple", "dict" (ordered sequence of   *)
(* <<key, value>>), "set" (a type json cannot serialise) and "self" (a     *)
(* reference back to the dictionary being dumped, i.e. a cycle).           *)
(***************************************************************************)
EXTENDS Integers, Sequences, FiniteSets, TLC

VARIABLES fs, proc, out, hist, mpc, clock, status

vars == <<fs, proc, out, hist, mpc, clock, status>>

(***************************************************************************)
(* Values                                                                  *)
(***************************************************************************)
Str(s) == [t |-> "str", s |-> s]
Int_(n) == [t |-> "int", n |-> n]
Float(tenths) == [t |-> "float", tenths |-> tenths]
Bool(b) == [t |-> "bool", b |-> b]
None == [t |-> "none"]
List(items) == [t |-> "list", items |-> items]
Tuple(items) == [t |-> "tuple", items |-> items]
Dict(items) == [t |-> "dict", items |-> items]
SetObj == [t |-> "set"]
SelfRef == [t |-> "self"]

(***************************************************************************)
(* json.dump(data, f, indent=2): the text the encoder yields, and the      *)
(* exception that stops it.  What was yielded before the exception has     *)
(* already been handed to f.write.                                         *)
(***************************************************************************)
Digit(d) == <<"0", "1", "2", "3", "4", "5", "6", "7", "8", "9">>[d + 1]

RECURSIVE NatStr(_)
NatStr(n) == IF n < 10 THEN <<Digit(n)>> ELSE NatStr(n \div 10) \o <<Digit(n % 10)>>

\* int.__repr__
IntStr(n) == IF n < 0 THEN <<"-">> \o NatStr(-n) ELSE NatStr(n)

\* float.__repr__ of tenths/10
FloatStr(tenths) ==
    LET a == IF tenths < 0 THEN -tenths ELSE tenths
    IN (IF tenths < 0 THEN <<"-">> ELSE <<>>) \o NatStr(a \div 10) \o <<".", Digit(a % 10)>>

\* the characters of the alphabet that no one-character string names:
\* U+0000, backspace, vertical tab, DEL, U+00FC, U+20AC and U+1F600
NUL == "NUL"
BS == "BS"
VT == "VT"
DEL == "DEL"
UUml == "U+00FC"
Euro == "U+20AC"
Grin == "U+1F600"

\* the character U+0060, which no string of a module can hold
Grave == "GRAVE"

\* the characters ' '..'~', in the order of their code points
Printable ==
    <<" ", "!", "\"", "#", "$", "%", "&", "'", "(", ")", "*", "+", ",", "-", ".", "/",
      "0", "1", "2", "3", "4", "5", "6", "7", "8", "9", ":", ";", "<", "=", ">", "?",
      "@", "A", "B", "C", "D", "E", "F", "G", "H", "I", "J", "K", "L", "M", "N", "O",
      "P", "Q", "R", "S", "T", "U", "V", "W", "X", "Y", "Z", "[", "\\", "]", "^", "_",
      Grave, "a", "b", "c", "d", "e", "f", "g", "h", "i", "j", "k", "l", "m", "n", "o",
      "p", "q", "r", "s", "t", "u", "v", "w", "x", "y", "z", "{", "|", "}", "~">>

PrintableSet == {Printable[n] : n \in 1..Len(Printable)}

\* the code points of the other characters of the alphabet
OrdOf ==
    (NUL :> 0) @@ (BS :> 8) @@ ("\t" :> 9) @@ ("\n" :> 10) @@ (VT :> 11) @@ ("\f" :> 12)
        @@ ("\r" :> 13) @@ (DEL :> 127) @@ (UUml :> 252) @@ (Euro :> 8364)
        @@ (Grin :> 128512)

\* ord(c)
Ord(c) ==
    IF c \in DOMAIN OrdOf THEN OrdOf[c]
    ELSE 31 + (CHOOSE n \in 1..Len(Printable) : Printable[n] = c)

HexDigits == <<"0", "1", "2", "3", "4", "5", "6", "7", "8", "9", "a", "b", "c", "d", "e", "f">>

\* '\\u{0:04x}'.format(n)
U4(n) ==
    <<"\\", "u", HexDigits[((n \div 4096) % 16) + 1], HexDigits[((n \div 256) % 16) + 1],
      HexDigits[((n \div 16) % 16) + 1], HexDigits[(n % 16) + 1]>>

\* json.encoder, replace of py_encode_basestring_ascii for a character that
\* ESCAPE_DCT lacks: \uXXXX, and a surrogate pair above U+FFFF
UEscape(n) ==
    IF n < 65536 THEN U4(n)
    ELSE LET v == n - 65536
         IN U4(55296 + ((v \div 1024) % 1024)) \o U4(56320 + (v % 1024))

\* an encoder that escapes nothing
EscapeChar_Raw(c) == <<c>>

\* json.encoder, ensure_ascii: ESCAPE_ASCII matches quote, backslash and every
\* character outside ' '..'~'; the replacement is ESCAPE_DCT's or \uXXXX
EscapeChar(c) ==
    CASE c = "\"" -> <<"\\", "\"">>
      [] c = "\\" -> <<"\\", "\\">>
      [] c = "\n" -> <<"\\", "n">>
      [] c = "\r" -> <<"\\", "r">>
      [] c = "\t" -> <<"\\", "t">>
      [] c = "\f" -> <<"\\", "f">>
      [] c = BS -> <<"\\", "b">>
      [] c \in PrintableSet -> <<c>>
      [] OTHER -> UEscape(Ord(c))

\* the escapes of every character of s, in order (halving keeps the evaluation shallow)
RECURSIVE EscapeAll(_)
EscapeAll(s) ==
    IF s = <<>> THEN <<>>
    ELSE IF Len(s) = 1 THEN EscapeChar(s[1])
    ELSE LET h == Len(s) \div 2
         IN EscapeAll(SubSeq(s, 1, h)) \o EscapeAll(SubSeq(s, h + 1, Len(s)))

\* py_encode_basestring_ascii
EncodeStr(s) == <<"\"">> \o EscapeAll(s) \o <<"\"">>

RECURSIVE Spaces(_)
Spaces(n) == IF n = 0 THEN <<>> ELSE <<" ">> \o Spaces(n - 1)

Indent == 2

\* newline_indent = '\n' + _indent * _current_indent_level
NewlineIndent(level) == <<"\n">> \o Spaces(Indent * level)

Ok(text) == [out |-> text, err |-> ""]
Raised(text, e) == [out |-> text, err |-> e]

\* the key conversions of _iterencode_dict
KeyStr(k) ==
    CASE k.t = "str" -> Ok(EncodeStr(k.s))
      [] k.t = "float" -> Ok(EncodeStr(FloatStr(k.tenths)))
      [] k.t = "bool" -> Ok(EncodeStr(IF k.b THEN <<"t", "r", "u", "e">>
                                             ELSE <<"f", "a", "l", "s", "e">>))
      [] k.t = "none" -> Ok(EncodeStr(<<"n", "u", "l", "l">>))
      [] k.t = "int" -> Ok(EncodeStr(IntStr(k.n)))
      [] OTHER -> Raised(<<>>, "TypeError")

RECURSIVE IterEncode(_, _), IterEncodeList(_, _, _), IterEncodeDict(_, _, _)

\* _iterencode: level is _current_indent_level
IterEncode(v, level) ==
    CASE v.t = "str" -> Ok(EncodeStr(v.s))
      [] v.t = "none" -> Ok(<<"n", "u", "l", "l">>)
      [] v.t = "bool" -> Ok(IF v.b THEN <<"t", "r", "u", "e">> ELSE <<"f", "a", "l", "s", "e">>)
      [] v.t = "int" -> Ok(IntStr(v.n))
      [] v.t = "float" -> Ok(FloatStr(v.tenths))
      [] v.t \in {"list", "tuple"} ->
            IF v.items = <<>> THEN Ok(<<"[", "]">>)
            ELSE LET r == IterEncodeList(v.items, 1, level + 1)
                 IN IF r.err # "" THEN Raised(<<"[">> \o NewlineIndent(level + 1) \o r.out, r.err)
                    ELSE Ok(<<"[">> \o NewlineIndent(level + 1) \o r.out
                            \o NewlineIndent(level) \o <<"]">>)
      [] v.t = "dict" ->
            IF v.items = <<>> THEN Ok(<<"{", "}">>)
            ELSE LET r == IterEncodeDict(v.items, 1, level + 1)
                 IN IF r.err # "" THEN Raised(<<"{">> \o NewlineIndent(level + 1) \o r.out, r.err)
                    ELSE Ok(<<"{">> \o NewlineIndent(level + 1) \o r.out
                            \o NewlineIndent(level) \o <<"}">>)
      \* markerid in markers
      [] v.t = "self" -> Raised(<<>>, "ValueError")
      \* _default(o)
      [] OTHER -> Raised(<<>>, "TypeError")

\* the loop of _iterencode_list from item i on
IterEncodeList(items, i, level) ==
    IF i > Len(items) THEN Ok(<<>>)
    ELSE LET sep == IF i = 1 THEN <<>> ELSE <<",">> \o NewlineIndent(level)
             r == IterEncode(items[i], level)
         IN IF r.err # "" THEN Raised(sep \o r.out, r.err)
            ELSE LET rest == IterEncodeList(items, i + 1, level)
                 IN [out |-> sep \o r.out \o rest.out, err |-> rest.err]

\* the loop of _iterencode_dict from item i on
IterEncodeDict(items, i, level) ==
    IF i > Len(items) THEN Ok(<<>>)
    ELSE LET sep == IF i = 1 THEN <<>> ELSE <<",">> \o NewlineIndent(level)
             k == KeyStr(items[i][1])
         IN IF k.err # "" THEN Raised(<<>>, k.err)
            ELSE LET r == IterEncode(items[i][2], level)
                     head == sep \o k.out \o <<":", " ">>
                 IN IF r.err # "" THEN Raised(head \o r.out, r.err)
                    ELSE LET rest == IterEncodeDict(items, i + 1, level)
                         IN [out |-> head \o r.out \o rest.out, err |-> rest.err]

JsonDump(data) == IterEncode(data, 0)

(***************************************************************************)
(* json.load: the reader the round-trip law uses on a written document.    *)
(* Numbers are the encoder's forms: an integer, or one fractional digit.   *)
(***************************************************************************)
Fail == [ok |-> FALSE, v |-> None, i |-> 0]
Got(v, i) == [ok |-> TRUE, v |-> v, i |-> i]

IsDigit(c) == c \in {"0", "1", "2", "3", "4", "5", "6", "7", "8", "9"}
DigitVal(c) == CHOOSE d \in 0..9 : Digit(d) = c

RECURSIVE SkipWs(_, _)
SkipWs(s, i) == IF i <= Len(s) /\ s[i] \in {" ", "\n", "\t", "\r"} THEN SkipWs(s, i + 1) ELSE i

\* the number of backslashes in a row that end just before position k, counted
\* from position i on
BackslashRun(s, i, k) ==
    CHOOSE r \in 0..(k - i) :
        /\ \A m \in 1..r : s[k - m] = "\\"
        /\ (r = k - i \/ s[k - r - 1] # "\\")

\* a hexadecimal digit in lower case
LowerHex(c) ==
    CASE c = "A" -> "a" [] c = "B" -> "b" [] c = "C" -> "c"
      [] c = "D" -> "d" [] c = "E" -> "e" [] c = "F" -> "f" [] OTHER -> c

IsHex(c) == \E n \in 1..Len(HexDigits) : HexDigits[n] = LowerHex(c)

HexVal(c) == (CHOOSE n \in 1..Len(HexDigits) : HexDigits[n] = LowerHex(c)) - 1

\* int(h, 16) of four hexadecimal digits
Hex4Val(h) == ((HexVal(h[1]) * 16 + HexVal(h[2])) * 16 + HexVal(h[3])) * 16 + HexVal(h[4])

\* chr(n), where the alphabet has the character
Chr(n) ==
    IF n >= 32 /\ n <= 126 THEN <<Printable[n - 31]>>
    ELSE IF \E c \in DOMAIN OrdOf : OrdOf[c] = n
    THEN <<CHOOSE c \in DOMAIN OrdOf : OrdOf[c] = n>>
    ELSE <<>>

\* the string literal whose opening quote is just before position i: it ends at
\* the first quote that no backslash escapes; control characters must be
\* escaped; \uXXXX is a code point, two of them a surrogate pair
ScanString(s, i) ==
    LET closing == {k \in i..Len(s) : s[k] = "\"" /\ BackslashRun(s, i, k) % 2 = 0}
        end == CHOOSE k \in closing : \A m \in closing : k <= m
        escaped(k) == BackslashRun(s, i, k) % 2 = 1
        opens(k) == s[k] = "\\" /\ ~escaped(k)
        isU(k) == escaped(k) /\ s[k] = "u"
        okU(k) == isU(k) /\ k + 4 <= end - 1 /\ \A n \in 1..4 : IsHex(s[k + n])
        uval(k) == Hex4Val(SubSeq(s, k + 1, k + 4))
        paired(k) ==
            /\ okU(k) /\ uval(k) >= 55296 /\ uval(k) <= 56319
            /\ k + 6 <= end - 1 /\ s[k + 5] = "\\" /\ okU(k + 6)
            /\ uval(k + 6) >= 56320 /\ uval(k + 6) <= 57343
        low(k) == isU(k) /\ k - 6 >= i /\ paired(k - 6)
        code(k) == IF paired(k) THEN 65536 + (uval(k) - 55296) * 1024 + (uval(k + 6) - 56320)
                   ELSE uval(k)
        inU(k) == \E j \in 1..4 : k - j >= i /\ isU(k - j)
        kept == SelectSeq([n \in 1..(end - i) |-> i + n - 1],
                          LAMBDA k : ~opens(k) /\ ~inU(k) /\ ~low(k))
        char(k) ==
            IF ~escaped(k) THEN s[k]
            ELSE CASE s[k] = "n" -> "\n"
                   [] s[k] = "r" -> "\r"
                   [] s[k] = "t" -> "\t"
                   [] s[k] = "f" -> "\f"
                   [] s[k] = "b" -> BS
                   [] s[k] = "u" -> Chr(code(k))[1]
                   [] OTHER -> s[k]
    IN IF closing = {} THEN Fail
       ELSE IF \E k \in i..(end - 1) :
                   \/ ~escaped(k) /\ s[k] \in DOMAIN OrdOf /\ OrdOf[s[k]] < 32
                   \/ escaped(k) /\ s[k] \notin {"\"", "\\", "/", "b", "f", "n", "r", "t", "u"}
                   \/ isU(k) /\ ~low(k) /\ (~okU(k) \/ Chr(code(k)) = <<>>)
            THEN Fail
       ELSE Got(Str([n \in 1..Len(kept) |-> char(kept[n])]), end + 1)

RECURSIVE ScanDigits(_, _, _)
ScanDigits(s, i, acc) ==
    IF i <= Len(s) /\ IsDigit(s[i]) THEN ScanDigits(s, i + 1, 10 * acc + DigitVal(s[i]))
    ELSE [n |-> acc, i |-> i]

ScanNumber(s, i) ==
    LET neg == s[i] = "-"
        j == IF neg THEN i + 1 ELSE i
    IN IF j > Len(s) \/ ~IsDigit(s[j]) THEN Fail
       ELSE LET d == ScanDigits(s, j, 0)
                sign == IF neg THEN -1 ELSE 1
            IN IF d.i - j > 1 /\ s[j] = "0" THEN Fail
               ELSE IF d.i <= Len(s) /\ s[d.i] = "." THEN
                   IF d.i + 1 <= Len(s) /\ IsDigit(s[d.i + 1])
                      /\ ~(d.i + 2 <= Len(s) /\ IsDigit(s[d.i + 2]))
                   THEN Got(Float(sign * (10 * d.n + DigitVal(s[d.i + 1]))), d.i + 2)
                   ELSE Fail
               ELSE Got(Int_(sign * d.n), d.i)

IsAt(s, i, word) == i + Len(word) - 1 <= Len(s) /\ SubSeq(s, i, i + Len(word) - 1) = word

\* dict[key] = value: an existing key keeps its position
DictPut(items, k, v) ==
    IF \E n \in 1..Len(items) : items[n][1] = k
    THEN [n \in 1..Len(items) |-> IF items[n][1] = k THEN <<k, v>> ELSE items[n]]
    ELSE Append(items, <<k, v>>)

RECURSIVE ScanValue(_, _), ScanArray(_, _, _), ScanObject(_, _, _)

ScanValue(s, i0) ==
    LET i == SkipWs(s, i0)
    IN IF i > Len(s) THEN Fail
       ELSE IF s[i] = "\"" THEN ScanString(s, i + 1)
       ELSE IF s[i] = "-" \/ IsDigit(s[i]) THEN ScanNumber(s, i)
       ELSE IF IsAt(s, i, <<"n", "u", "l", "l">>) THEN Got(None, i + 4)
       ELSE IF IsAt(s, i, <<"t", "r", "u", "e">>) THEN Got(Bool(TRUE), i + 4)
       ELSE IF IsAt(s, i, <<"f", "a", "l", "s", "e">>) THEN Got(Bool(FALSE), i + 5)
       ELSE IF s[i] = "[" THEN
           LET j == SkipWs(s, i + 1)
           IN IF j <= Len(s) /\ s[j] = "]" THEN Got(List(<<>>), j + 1)
              ELSE ScanArray(s, j, <<>>)
       ELSE IF s[i] = "{" THEN
           LET j == SkipWs(s, i + 1)
           IN IF j <= Len(s) /\ s[j] = "}" THEN Got(Dict(<<>>), j + 1)
              ELSE ScanObject(s, j, <<>>)
       ELSE Fail

\* the elements of an array from i on, acc the elements read so far
ScanArray(s, i, acc) ==
    LET e == ScanValue(s, i)
    IN IF ~e.ok THEN Fail
       ELSE LET j == SkipWs(s, e.i)
            IN IF j > Len(s) THEN Fail
               ELSE IF s[j] = "]" THEN Got(List(Append(acc, e.v)), j + 1)
               ELSE IF s[j] = "," THEN ScanArray(s, j + 1, Append(acc, e.v))
               ELSE Fail

\* the members of an object from i on, acc the members read so far
ScanObject(s, i0, acc) ==
    LET i == SkipWs(s, i0)
    IN IF i > Len(s) \/ s[i] # "\"" THEN Fail
       ELSE LET k == ScanString(s, i + 1)
            IN IF ~k.ok THEN Fail
               ELSE LET c == SkipWs(s, k.i)
                    IN IF c > Len(s) \/ s[c] # ":" THEN Fail
                       ELSE LET e == ScanValue(s, c + 1)
                            IN IF ~e.ok THEN Fail
                               ELSE LET j == SkipWs(s, e.i)
                                        got == DictPut(acc, k.v, e.v)
                                    IN IF j > Len(s) THEN Fail
                                       ELSE IF s[j] = "}" THEN Got(Dict(got), j + 1)
                                       ELSE IF s[j] = "," THEN ScanObject(s, j + 1, got)
                                       ELSE Fail

\* json.loads(text): ok is FALSE where it raises JSONDecodeError
JsonLoad(text) ==
    LET r == ScanValue(text, 1)
    IN IF r.ok /\ SkipWs(text, r.i) = Len(text) + 1 THEN [ok |-> TRUE, v |-> r.v]
       ELSE [ok |-> FALSE, v |-> None]

\* the JSON document a Python value denotes: a tuple is a sequence
RECURSIVE DocOf(_)
DocOf(v) ==
    CASE v.t = "tuple" -> List([n \in 1..Len(v.items) |-> DocOf(v.items[n])])
      [] v.t = "list" -> List([n \in 1..Len(v.items) |-> DocOf(v.items[n])])
      [] v.t = "dict" -> Dict([n \in 1..Len(v.items) |->
                                   <<v.items[n][1], DocOf(v.items[n][2])>>])
      [] OTHER -> v

\* a Record of the data model: a mapping from string keys to JSON-like values
RECURSIVE IsJsonValue(_)
IsJsonValue(v) ==
    CASE v.t \in {"str", "int", "float", "bool", "none"} -> TRUE
      [] v.t \in {"list", "tuple"} -> \A n \in 1..Len(v.items) : IsJsonValue(v.items[n])
      [] v.t = "dict" -> \A n \in 1..Len(v.items) :
                             /\ v.items[n][1].t = "str"
                             /\ IsJsonValue(v.items[n][2])
      [] OTHER -> FALSE

IsRecord(v) == v.t = "dict" /\ IsJsonValue(v)

(***************************************************************************)
(* The filesystem: fs.dirs is the set of directories and fs.files maps     *)
(* each regular file to its content, both keyed by the resolved path (the  *)
(* sequence of names from the working directory, which is the root).       *)
(***************************************************************************)
Parent(p) == IF p = <<>> THEN <<>> ELSE SubSeq(p, 1, Len(p) - 1)

RECURSIVE RStrip(_)
RStrip(p) == IF p # <<>> /\ p[Len(p)] = "/" THEN RStrip(Parent(p)) ELSE p

LastSlash(p) == IF \E i \in 1..Len(p) : p[i] = "/"
                THEN CHOOSE i \in 1..Len(p) : p[i] = "/" /\ \A j \in (i + 1)..Len(p) : p[j] # "/"
                ELSE 0

\* posixpath.split
Split(p) ==
    LET i == LastSlash(p)
        head == SubSeq(p, 1, i)
        tail == SubSeq(p, i + 1, Len(p))
    IN [head |-> IF RStrip(head) = <<>> THEN head ELSE RStrip(head), tail |-> tail]

\* posixpath.join(a, b)
Join(a, b) ==
    IF b # <<>> /\ b[1] = "/" THEN b
    ELSE IF a = <<>> \/ a[Len(a)] = "/" THEN a \o b
    ELSE a \o <<"/">> \o b

\* the kernel's walk of the tokens from i on, starting in directory cur
RECURSIVE Walk(_, _, _, _)
Walk(f, p, i, cur) ==
    IF i > Len(p) THEN [err |-> "", at |-> cur, kind |-> "dir"]
    ELSE IF p[i] \in {"/", "."} THEN Walk(f, p, i + 1, cur)
    ELSE IF p[i] = ".." THEN Walk(f, p, i + 1, Parent(cur))
    ELSE LET nxt == Append(cur, p[i])
         IN IF nxt \in f.dirs THEN Walk(f, p, i + 1, nxt)
            ELSE IF nxt \in DOMAIN f.files THEN
                IF i = Len(p) THEN [err |-> "", at |-> nxt, kind |-> "file"]
                ELSE [err |-> "NotADirectoryError", at |-> nxt, kind |-> ""]
            ELSE [err |-> "FileNotFoundError", at |-> nxt, kind |-> ""]

\* os.path.exists / os.path.isdir
Exists(f, p) == p # <<>> /\ Walk(f, p, 1, <<>>).err = ""
IsDir(f, p) == p # <<>> /\ Walk(f, p, 1, <<>>).err = "" /\ Walk(f, p, 1, <<>>).kind = "dir"

\* where the last component of p would be created: the parent's walk and the name
Target(f, p) ==
    LET q == RStrip(p)
        i == LastSlash(q)
        par == Walk(f, SubSeq(q, 1, i), 1, <<>>)
    IN IF p = <<>> THEN [err |-> "FileNotFoundError", at |-> <<>>, isdir |-> FALSE]
       ELSE IF q = <<>> \/ q[Len(q)] \in {".", ".."} THEN
           LET w == Walk(f, p, 1, <<>>)
           IN [err |-> w.err, at |-> w.at, isdir |-> TRUE]
       ELSE IF par.err # "" THEN [err |-> par.err, at |-> par.at, isdir |-> FALSE]
       ELSE IF par.kind = "file" THEN [err |-> "NotADirectoryError", at |-> par.at, isdir |-> FALSE]
       ELSE [err |-> "", at |-> Append(par.at, q[Len(q)]),
             isdir |-> Append(par.at, q[Len(q)]) \in f.dirs \/ q # p]

\* os.mkdir(p)
Mkdir(f, p) ==
    LET t == Target(f, p)
    IN IF t.err # "" THEN [fs |-> f, err |-> t.err]
       ELSE IF t.at \in f.dirs \/ t.at \in DOMAIN f.files \/ t.at = <<>>
       THEN [fs |-> f, err |-> "FileExistsError"]
       ELSE [fs |-> [f EXCEPT !.dirs = @ \cup {t.at}], err |-> ""]

\* os.makedirs: head, tail = path.split(name); if not tail: head, tail = path.split(head)
HeadTail(name) ==
    LET sp == Split(name)
    IN IF sp.tail = <<>> THEN Split(sp.head) ELSE sp

\* os.makedirs: "if head and tail", the condition under which path.exists(head) is asked
Descends(name) == HeadTail(name).head # <<>> /\ HeadTail(name).tail # <<>>

\* open(p, "w"): O_WRONLY | O_CREAT | O_TRUNC
OpenW(f, p) ==
    LET t == Target(f, p)
    IN IF t.err # "" THEN [fs |-> f, err |-> t.err, at |-> t.at]
       ELSE IF t.isdir THEN [fs |-> f, err |-> "IsADirectoryError", at |-> t.at]
       ELSE [fs |-> [f EXCEPT !.files = [q \in DOMAIN @ \cup {t.at} |-> IF q = t.at THEN <<>> ELSE @[q]]],
             err |-> "", at |-> t.at]

\* write(2) of text at offset o of an open file: a gap reads as NUL bytes;
\* a write of no text leaves the file as it is
WriteAt(content, o, text) ==
    LET n == IF text # <<>> /\ o + Len(text) > Len(content) THEN o + Len(text)
             ELSE Len(content)
    IN [i \in 1..n |-> IF i > o /\ i <= o + Len(text) THEN text[i - o]
                       ELSE IF i <= Len(content) THEN content[i]
                       ELSE NUL]

(***************************************************************************)
(* write_json_log, one step per system call.  A caller's frame:            *)
(*   pc      where it stands: "idle", "makedirs", "mkdir", "isdir", "open",*)
(*           "dump", "print", "println", "returned", "raised"              *)
(*   md      the os.makedirs calls in progress, the innermost last: the    *)
(*           name each was called with                                     *)
(*   mderr   the OSError of the innermost call's os.mkdir, pending while   *)
(*           os.path.isdir is asked                                        *)
(*   data, output_dir, filename   the arguments                            *)
(*   path    os.path.join(output_dir, filename)                            *)
(*   at      the file the open descriptor refers to                        *)
(*   buf     text json.dump has handed to f.write and f has not written:   *)
(*           a text of at most BufferSize characters stays in f's buffer   *)
(*           until f is closed and is written with one write(2); longer    *)
(*           texts are not among the inputs, and no step takes them        *)
(*   off     the descriptor's file offset                                  *)
(*   err     the exception json.dump raised, pending until f is closed     *)
(*   exc     the exception the call raised                                 *)
(*   ret     the value the call returned                                   *)
(***************************************************************************)
Procs == {1, 2}

\* no value yet
Unset == [t |-> "unset"]

Idle == [pc |-> "idle", data |-> None, output_dir |-> <<>>, filename |-> <<>>, path |-> <<>>,
         md |-> <<>>, mderr |-> "",
         at |-> <<>>, buf |-> <<>>, off |-> 0, err |-> "", exc |-> "", ret |-> Unset]

Frame(data, output_dir, filename) ==
    [Idle EXCEPT !.pc = "makedirs", !.data = data, !.output_dir = output_dir,
                 !.filename = filename, !.md = <<output_dir>>]

\* the name the innermost os.makedirs call in progress was called with
MdName(fr) == fr.md[Len(fr.md)]

\* line 61, os.makedirs: the innermost call returns, or its FileExistsError is
\* passed over by the call that made it.  That call goes on: it returns as well
\* when its tail is curdir, else os.mkdir of its name is next; after the
\* outermost call, line 62 is next
RECURSIVE MdReturn(_)
MdReturn(fr) ==
    LET rest == SubSeq(fr.md, 1, Len(fr.md) - 1)
        back == [fr EXCEPT !.md = rest, !.mderr = ""]
    IN IF rest = <<>> THEN [back EXCEPT !.pc = "open"]
       ELSE IF HeadTail(rest[Len(rest)]).tail = <<".">> THEN MdReturn(back)
       ELSE [back EXCEPT !.pc = "mkdir"]

\* line 61, os.makedirs: the innermost call raises e.  The call that made it
\* passes over a FileExistsError; anything else, and any exception of the
\* outermost call, ends write_json_log
MdRaise(fr, e) ==
    IF Len(fr.md) > 1 /\ e = "FileExistsError" THEN MdReturn(fr)
    ELSE [fr EXCEPT !.md = <<>>, !.mderr = "", !.pc = "raised", !.exc = e]

\* os.makedirs that asks for no parent: os.mkdir of the name is next at once
DoExists_NoParents(f, fr) == [fs |-> f, fr |-> [fr EXCEPT !.pc = "mkdir"]]

\* line 61, os.makedirs: path.exists(head); a missing head is made first, by
\* os.makedirs(head, exist_ok=exist_ok)
DoExists(f, fr) ==
    LET head == HeadTail(MdName(fr)).head
    IN [fs |-> f,
        fr |-> IF Exists(f, head) THEN [fr EXCEPT !.pc = "mkdir"]
               ELSE [fr EXCEPT !.md = Append(@, head)]]

\* line 61, os.makedirs: mkdir(name, mode); after an OSError, exist_ok being
\* True, path.isdir(name) is asked
DoMkdir(f, fr) ==
    LET r == Mkdir(f, MdName(fr))
    IN [fs |-> r.fs,
        fr |-> IF r.err = "" THEN MdReturn(fr)
               ELSE [fr EXCEPT !.pc = "isdir", !.mderr = r.err]]

\* line 61, os.makedirs: "if not exist_ok or not path.isdir(name): raise"
DoIsDir(f, fr) ==
    [fs |-> f,
     fr |-> IF IsDir(f, MdName(fr)) THEN MdReturn(fr) ELSE MdRaise(fr, fr.mderr)]

\* open(path, "a") in place of "w": nothing is truncated, writes go to the end
DoOpen_Append(f, fr) ==
    LET joined == Join(fr.output_dir, fr.filename)
        r == OpenW(f, joined)
        d == JsonDump(fr.data)
        old == IF r.at \in DOMAIN f.files THEN f.files[r.at] ELSE <<>>
    IN [fs |-> IF r.err # "" THEN f ELSE [r.fs EXCEPT !.files[r.at] = old],
        fr |-> IF r.err # "" THEN [fr EXCEPT !.path = joined, !.pc = "raised", !.exc = r.err]
               ELSE [fr EXCEPT !.path = joined, !.pc = "dump", !.at = r.at,
                               !.buf = d.out, !.err = d.err, !.off = Len(old)]]

\* lines 62-63: path = os.path.join(output_dir, filename); open(path, "w");
\* line 64: json.dump encodes data and hands the text to f.write
DoOpen(f, fr) ==
    LET joined == Join(fr.output_dir, fr.filename)
        r == OpenW(f, joined)
        d == JsonDump(fr.data)
    IN [fs |-> r.fs,
        fr |-> IF r.err # "" THEN [fr EXCEPT !.path = joined, !.pc = "raised", !.exc = r.err]
               ELSE [fr EXCEPT !.path = joined, !.pc = "dump", !.at = r.at,
                               !.buf = d.out, !.err = d.err]]

\* io.DEFAULT_BUFFER_SIZE, the size of the buffer of the file open(path, "w") gives
BufferSize == 8192

\* whether f's buffer holds all the text of the call until f is closed
Buffered(fr) == Len(fr.buf) <= BufferSize

\* a with block that swallows json.dump's exception
DoClose_Swallow(f, fr) ==
    [fs |-> [f EXCEPT !.files[fr.at] = WriteAt(@, fr.off, fr.buf)],
     fr |-> [fr EXCEPT !.buf = <<>>, !.off = @ + Len(fr.buf), !.pc = "print"]]

\* lines 63-64: the with block ends, normally or by json.dump's exception:
\* f writes what is left and is closed, then the exception goes on
DoClose(f, fr) ==
    [fs |-> [f EXCEPT !.files[fr.at] = WriteAt(@, fr.off, fr.buf)],
     fr |-> [fr EXCEPT !.buf = <<>>, !.off = @ + Len(fr.buf),
                       !.pc = IF fr.err = "" THEN "print" ELSE "raised",
                       !.exc = fr.err]]

\* line 65: print(f"[info] Wrote log to {path}")
Notice(fr) == [msg |-> "Wrote log to", path |-> fr.path]

\* what print writes to sys.stdout after the text: end
LineEnd == [msg |-> "\n", path |-> <<>>]

\* line 65: print has written the text
DoPrint(fr) == [fr EXCEPT !.pc = "println"]

\* line 65: print has written the line end; the function ends and returns None
DoPrintEnd(fr) == [fr EXCEPT !.pc = "returned", !.ret = None]

\* whether the caller is in an os.makedirs call whose next system call is os.mkdir
AtMkdir(fr) == fr.pc = "mkdir" \/ (fr.pc = "makedirs" /\ ~Descends(MdName(fr)))

ExistsStep(p) ==
    /\ proc[p].pc = "makedirs"
    /\ Descends(MdName(proc[p]))
    /\ LET r == DoExists(fs, proc[p])
       IN fs' = r.fs /\ proc' = [proc EXCEPT ![p] = r.fr]
    /\ UNCHANGED <<out, hist, mpc, clock, status>>

MkdirStep(p) ==
    /\ AtMkdir(proc[p])
    /\ LET r == DoMkdir(fs, proc[p])
       IN fs' = r.fs /\ proc' = [proc EXCEPT ![p] = r.fr]
    /\ UNCHANGED <<out, hist, mpc, clock, status>>

IsDirStep(p) ==
    /\ proc[p].pc = "isdir"
    /\ LET r == DoIsDir(fs, proc[p])
       IN fs' = r.fs /\ proc' = [proc EXCEPT ![p] = r.fr]
    /\ UNCHANGED <<out, hist, mpc, clock, status>>

OpenStep(p) ==
    /\ proc[p].pc = "open"
    /\ LET r == DoOpen(fs, proc[p])
       IN fs' = r.fs /\ proc' = [proc EXCEPT ![p] = r.fr]
    /\ UNCHANGED <<out, hist, mpc, clock, status>>

CloseStep(p) ==
    /\ proc[p].pc = "dump"
    /\ Buffered(proc[p])
    /\ LET r == DoClose(fs, proc[p])
       IN fs' = r.fs /\ proc' = [proc EXCEPT ![p] = r.fr]
    /\ UNCHANGED <<out, hist, mpc, clock, status>>

PrintStep(p) ==
    /\ proc[p].pc = "print"
    /\ out' = Append(out, Notice(proc[p]))
    /\ proc' = [proc EXCEPT ![p] = DoPrint(proc[p])]
    /\ UNCHANGED <<fs, hist, mpc, clock, status>>

PrintEndStep(p) ==
    /\ proc[p].pc = "println"
    /\ out' = Append(out, LineEnd)
    /\ proc' = [proc EXCEPT ![p] = DoPrintEnd(proc[p])]
    /\ UNCHANGED <<fs, hist, mpc, clock, status>>

write_json_log(p) ==
    \/ ExistsStep(p)
    \/ MkdirStep(p)
    \/ IsDirStep(p)
    \/ OpenStep(p)
    \/ CloseStep(p)
    \/ PrintStep(p)
    \/ PrintEndStep(p)

\* a whole call by one caller with nobody else running: the filesystem it leaves
\* and the frame it ends in
RECURSIVE Run(_, _)
Run(f, fr) ==
    CASE fr.pc = "makedirs" /\ Descends(MdName(fr)) -> LET r == DoExists(f, fr) IN Run(r.fs, r.fr)
      [] AtMkdir(fr) -> LET r == DoMkdir(f, fr) IN Run(r.fs, r.fr)
      [] fr.pc = "isdir" -> LET r == DoIsDir(f, fr) IN Run(r.fs, r.fr)
      [] fr.pc = "open" -> LET r == DoOpen(f, fr) IN Run(r.fs, r.fr)
      [] fr.pc = "dump" /\ Buffered(fr) -> LET r == DoClose(f, fr) IN Run(r.fs, r.fr)
      [] fr.pc = "print" -> Run(f, DoPrint(fr))
      [] fr.pc = "println" -> Run(f, DoPrintEnd(fr))
      [] OTHER -> [fs |-> f, fr |-> fr]

(***************************************************************************)
(* Spec: one caller makes up to MaxCalls calls of write_json_log, one      *)
(* after the other, with any arguments of the sets below, on any of the    *)
(* starting filesystems; an exception of one call is caught by the caller. *)
(***************************************************************************)
MaxCalls == 2

RecA == Dict(<< <<Str(<<"a">>), Int_(1)>> >>)
RecB == Dict(<< <<Str(<<"a">>), Str(<<"q", "\"", "\t", BS, VT, DEL, UUml, Euro, Grin>>)>>,
                <<Str(<<"b">>), List(<<Float(-25), Tuple(<<None>>)>>)>> >>)
\* d = {"a": 1}; d["s"] = d
RecCyclic == Dict(<< <<Str(<<"a">>), Int_(1)>>, <<Str(<<"s">>), SelfRef>> >>)
RecSet == Dict(<< <<Str(<<"b">>), SetObj>> >>)
\* json.dump takes it, but its key is no string: not a Record
RecIntKey == Dict(<< <<Int_(1), Bool(TRUE)>> >>)

Records == {RecA, RecB, RecCyclic, RecSet, RecIntKey}
OutputDirs == {<<"o">>, <<"o", "/", "n">>}
Filenames == {<<"x">>, <<"y">>, <<>>, <<".", "/", "x">>}

Stale == <<"{", "}", "\n", "\n">>
EmptyFS == [dirs |-> {<<>>}, files |-> <<>>]
\* o exists and holds a stale x and another document z
UsedFS == [dirs |-> {<<>>, <<"o">>},
           files |-> (<<"o", "x">> :> Stale) @@ (<<"o", "z">> :> Stale)]
\* o is a regular file
BlockedFS == [dirs |-> {<<>>}, files |-> (<<"o">> :> Stale)]
InitialFS == {EmptyFS, UsedFS, BlockedFS}

NoCall == [data |-> None, output_dir |-> <<>>, filename |-> <<>>, pc |-> "idle"]

Init ==
    /\ fs \in InitialFS
    /\ proc = [p \in Procs |-> Idle]
    /\ out = <<>>
    /\ hist = [n |-> 0, pre |-> fs, pre0 |-> fs, prev |-> NoCall]
    /\ mpc = 0
    /\ clock = 0
    /\ status = -1

\* the caller calls write_json_log(data, output_dir, filename); hist keeps the
\* filesystem the call started on (pre), the call before it (prev) and the
\* filesystem that one started on (pre0)
Call(p, data, output_dir, filename) ==
    /\ proc[p].pc \in {"idle", "returned", "raised"}
    /\ hist.n < MaxCalls
    /\ proc' = [proc EXCEPT ![p] = Frame(data, output_dir, filename)]
    /\ out' = <<>>
    /\ hist' = [n |-> hist.n + 1, pre |-> fs, pre0 |-> hist.pre,
                prev |-> [data |-> proc[p].data, output_dir |-> proc[p].output_dir,
                          filename |-> proc[p].filename, pc |-> proc[p].pc]]
    /\ UNCHANGED <<fs, mpc, clock, status>>

Next ==
    \/ \E data \in Records, output_dir \in OutputDirs, filename \in Filenames :
           Call(1, data, output_dir, filename)
    \/ write_json_log(1)

Spec == Init /\ [][Next]_vars
(***************************************************************************)
(* Properties of write_json_log under Spec                                 *)
(***************************************************************************)
caller == proc[1]
Completed == caller.pc \in {"returned", "raised"}

\* a filename of the data model: not empty, no path separator
ValidName(filename) == filename # <<>> /\ \A i \in 1..Len(filename) : filename[i] # "/"

\* json.load(open(p)): ok is FALSE where opening or parsing raises
ReadBack(f, p) ==
    LET w == Walk(f, p, 1, <<>>)
    IN IF p # <<>> /\ w.err = "" /\ w.kind = "file" THEN JsonLoad(f.files[w.at])
       ELSE [ok |-> FALSE, v |-> None]

\* the names of a path without its separators
Components(p) == SelectSeq(p, LAMBDA t : t \notin {"/", "."})

\* the directories on the way to p, p included
DirChain(p) == {SubSeq(Components(p), 1, k) : k \in 1..Len(Components(p))}

\* nothing of f stands in the way of writing filename in output_dir
Unobstructed(f, output_dir, filename) ==
    /\ \A q \in DirChain(output_dir) : q \notin DOMAIN f.files
    /\ (Components(output_dir) \o filename) \notin f.dirs

C2_NoMutationOnSerializationError ==
    (caller.pc = "raised" /\ caller.exc \in {"ValueError", "TypeError"}) => fs = hist.pre

\* C3: a write whose filename is empty or contains a path separator fails and
\* leaves directories, documents and contents as they were.
C3_InvalidNameRejected ==
    (Completed /\ ~ValidName(caller.filename)) => (caller.pc = "raised" /\ fs = hist.pre)

\* C4: two successive successful calls with the same arguments leave the
\* filesystem as the first of them left it.
C4_Idempotent ==
    (/\ caller.pc = "returned"
     /\ hist.prev.pc = "returned"
     /\ hist.prev.data = caller.data
     /\ hist.prev.output_dir = caller.output_dir
     /\ hist.prev.filename = caller.filename)
        => fs = hist.pre

C4_Witness ==
    /\ caller.pc = "returned"
    /\ hist.prev.pc = "returned"
    /\ hist.prev.data = RecB /\ caller.data = RecB
    /\ hist.prev.output_dir = caller.output_dir
    /\ hist.prev.filename = <<"x">> /\ caller.filename = <<"x">>
    /\ hist.pre0 = UsedFS
    /\ hist.pre # hist.pre0

\* C7: two successful writes to distinct filenames of one directory leave the
\* filesystem the writes in the opposite order would leave.
C7_OrderIndependent ==
    (/\ hist.n >= 2
     /\ caller.pc = "returned"
     /\ hist.prev.pc = "returned"
     /\ hist.prev.output_dir = caller.output_dir
     /\ hist.prev.filename # caller.filename)
        => fs = Run(Run(hist.pre0, Frame(caller.data, caller.output_dir, caller.filename)).fs,
                    Frame(hist.prev.data, hist.prev.output_dir, hist.prev.filename)).fs

\* C8: a write of serializable data under a valid filename into a directory that
\* nothing obstructs succeeds, whether the directory exists or not; afterwards
\* every directory on the way exists, and nothing but those directories and the
\* written document differs from before.
C8_DirectoryCreation ==
    (/\ Completed
     /\ JsonDump(caller.data).err = ""
     /\ ValidName(caller.filename)
     /\ Unobstructed(hist.pre, caller.output_dir, caller.filename))
        => LET target == Components(caller.output_dir) \o caller.filename
           IN /\ caller.pc = "returned"
              /\ fs.dirs = hist.pre.dirs \cup DirChain(caller.output_dir)
              /\ DOMAIN fs.files = DOMAIN hist.pre.files \cup {target}
              /\ \A q \in DOMAIN hist.pre.files \ {target} : fs.files[q] = hist.pre.files[q]

C8_Witness ==
    /\ caller.pc = "returned"
    /\ hist.pre = EmptyFS
    /\ caller.output_dir = <<"o", "/", "n">>
    /\ {<<"o">>, <<"o", "n">>} \subseteq fs.dirs
    /\ <<"o", "n", "y">> \in DOMAIN fs.files

ConcDir == <<"o", "/", "n">>
ConcName == <<"x">>
ConcRecords == {RecA, RecB}

InitConc ==
    /\ fs \in {EmptyFS, UsedFS}
    /\ proc = [p \in Procs |-> Idle]
    /\ out = <<>>
    /\ hist = [n |-> 0, pre |-> fs, pre0 |-> fs, prev |-> NoCall]
    /\ mpc = 0
    /\ clock = 0
    /\ status = -1

ConcCall(p, data) ==
    /\ proc[p].pc = "idle"
    /\ proc' = [proc EXCEPT ![p] = Frame(data, ConcDir, ConcName)]
    /\ hist' = [hist EXCEPT !.n = @ + 1]
    /\ UNCHANGED <<fs, out, mpc, clock, status>>

NextConc ==
    \E p \in Procs :
        \/ \E data \in ConcRecords : ConcCall(p, data)
        \/ write_json_log(p)

SpecConc == InitConc /\ [][NextConc]_vars

\* C6: once both concurrent writes to the same path have completed, the document
\* there is exactly the one or exactly the other Record's text.
C6_LastWriteWins ==
    (\A p \in Procs : proc[p].pc = "returned")
        => fs.files[<<"o", "n", "x">>] \in {JsonDump(proc[1].data).out, JsonDump(proc[2].data).out}

(***************************************************************************)
(* SpecMain: the script run once.  main(repo_path, output_dir) builds the  *)
(* four records and writes each with write_json_log, in program order; an  *)
(* exception of a write is caught nowhere, so it ends main and the         *)
(* interpreter exits with status 1; after a normal end the status is 0.    *)
(* status is -1 while the process runs.  mpc is the number of the write    *)
(* main is at, 0 before the first, 5 after the normal end, 6 after an      *)
(* exception.  The clock is what datetime.utcnow() reads; it advances at   *)
(* any time.                                                               *)
(***************************************************************************)
MaxClock == 2

\* datetime.isoformat() of the clock's reading
IsoFormat(now) == <<"T">> \o NatStr(now)

\* lines 73-79
commit_metadata(now) ==
    Dict(<< <<Str(<<"c", "o", "m", "m", "i", "t", "_", "h", "a", "s", "h">>), Str(<<"a", "b", "c", "1", "2", "3">>)>>,
            <<Str(<<"a", "u", "t", "h", "o", "r">>), Str(<<"d", "e", "v", "e", "l", "o", "p", "e", "r", "@", "e",
                              "x", "a", "m", "p", "l", "e", ".", "c", "o", "m">>)>>,
            <<Str(<<"t", "i", "m", "e", "s", "t", "a", "m", "p">>), Str(IsoFormat(now))>>,
            <<Str(<<"m", "e", "s", "s", "a", "g", "e">>),
              Str(<<"I", "m", "p", "l", "e", "m", "e", "n", "t", " ", "f", "e", "a",
                  "t", "u", "r", "e", " ", "X">>)>>,
            <<Str(<<"f", "i", "l", "e", "s", "_", "c", "h", "a", "n", "g", "e", "d">>),
              List(<<Str(<<"s", "r", "c", "/", "m", "o", "d", "u", "l", "e", ".", "p",
                         "y">>)>>)>> >>)

\* lines 29-42
run_sonarqube_analysis ==
    Dict(<< <<Str(<<"c", "o", "d", "e", "_", "s", "m", "e", "l", "l", "s">>), Int_(10)>>,
            <<Str(<<"b", "u", "g", "s">>), Int_(0)>>,
            <<Str(<<"v", "u", "l", "n", "e", "r", "a", "b", "i", "l", "i", "t", "i",
                  "e", "s">>), Int_(0)>>,
            <<Str(<<"c", "o", "v", "e", "r", "a", "g", "e">>), Float(850)>>,
            <<Str(<<"d", "u", "p", "l", "i", "c", "a", "t", "e", "d", "_", "l", "i",
                  "n", "e", "s", "_", "d", "e", "n", "s", "i", "t", "y">>),
              Float(12)>> >>)

\* lines 46-56, called at lines 88-91
capture_ai_interactions(prompt, response, now) ==
    Dict(<< <<Str(<<"t", "i", "m", "e", "s", "t", "a", "m", "p">>), Str(IsoFormat(now))>>,
            <<Str(<<"p", "r", "o", "m", "p", "t">>), Str(prompt)>>,
            <<Str(<<"r", "e", "s", "p", "o", "n", "s", "e">>), Str(response)>> >>)

prompt_text ==
    <<"H", "o", "w", " ", "t", "o", " ", "i", "m", "p", "l", "e", "m", "e", "n", "t",
      " ", "a", " ", "b", "i", "n", "a", "r", "y", " ", "s", "e", "a", "r", "c", "h",
      "?">>

response_text ==
    <<"H", "e", "r", "e", " ", "i", "s", " ", "a", " ", "P", "y", "t", "h", "o", "n",
      " ", "i", "m", "p", "l", "e", "m", "e", "n", "t", "a", "t", "i", "o", "n", " ",
      "o", "f", " ", "b", "i", "n", "a", "r", "y", " ", "s", "e", "a", "r", "c", "h",
      ".", ".", ".">>

\* lines 95-99
total_lines == <<"t", "o", "t", "a", "l", "_", "l", "i", "n", "e", "s">>
covered_lines == <<"c", "o", "v", "e", "r", "e", "d", "_", "l", "i", "n", "e", "s">>
coverage_percent ==
    <<"c", "o", "v", "e", "r", "a", "g", "e", "_", "p", "e", "r", "c", "e", "n", "t">>

coverage ==
    Dict(<< <<Str(total_lines), Int_(1000)>>,
            <<Str(covered_lines), Int_(850)>>,
            <<Str(coverage_percent), Float(850)>> >>)

\* two of the writes share a name
FileNameOf_Dup(k) ==
    <<"commit_metadata.json", "sonar_metrics.json", "ai_interactions.json",
      "ai_interactions.json">>[k]

\* the filename of main's k-th write: lines 80, 85, 92, 100
FileNameOf(k) ==
    <<"commit_metadata.json", "sonar_metrics.json", "ai_interactions.json", "coverage.json">>[k]

\* the record of main's k-th write, built when the clock reads now
RecordOf(k, now) ==
    CASE k = 1 -> commit_metadata(now)
      [] k = 2 -> run_sonarqube_analysis
      [] k = 3 -> capture_ai_interactions(prompt_text, response_text, now)
      [] k = 4 -> coverage

\* a main that goes on after a failed write
AfterWrite_Swallow(k, fr) == IF k < 4 THEN k + 1 ELSE 5

\* where main stands once its k-th write has ended in frame fr: an exception
\* leaves main (6), a return goes on to the next statement
AfterWrite(k, fr) ==
    IF fr.pc = "raised" THEN 6
    ELSE IF k < 4 THEN k + 1 ELSE 5

MainDirs == {<<".", "/", "logs">>, <<"o", "/", "n">>}

\* output_dir exists and is empty
Fresh(d) == [dirs |-> {<<>>} \cup DirChain(d), files |-> <<>>]
\* output_dir holds an old coverage.json and another document
Rerun(d) == [dirs |-> {<<>>} \cup DirChain(d),
             files |-> (Components(d) \o <<"coverage.json">> :> Stale)
                       @@ (Components(d) \o <<"notes">> :> Stale)]
\* the name of the k-th document is taken by a directory
Taken(d, k) == [dirs |-> {<<>>} \cup DirChain(d) \cup {Components(d) \o <<FileNameOf(k)>>},
                files |-> <<>>]
\* the first directory on the way to output_dir is a regular file
Blocked(d) == [dirs |-> {<<>>}, files |-> (SubSeq(Components(d), 1, 1) :> Stale)]

MainFS(d) == {EmptyFS, Fresh(d), Rerun(d), Blocked(d)} \cup {Taken(d, k) : k \in 1..4}

InitMain ==
    /\ \E d \in MainDirs :
           /\ fs \in MainFS(d)
           /\ hist = [output_dir |-> d, pre |-> fs, calls |-> <<>>]
    /\ proc = [p \in Procs |-> Idle]
    /\ out = <<>>
    /\ mpc = 0
    /\ clock = 0
    /\ status = -1

\* main calls write_json_log for its k-th document; hist.calls keeps the calls
\* made and, once main has moved on, how each ended
MainWrite(k) ==
    /\ proc' = [proc EXCEPT ![1] = Frame(RecordOf(k, clock), hist.output_dir, <<FileNameOf(k)>>)]
    /\ hist' = [hist EXCEPT !.calls =
                    Append([i \in 1..Len(@) |-> IF i = Len(@) THEN [@[i] EXCEPT !.pc = proc[1].pc]
                                                ELSE @[i]],
                           [filename |-> FileNameOf(k), data |-> RecordOf(k, clock),
                            pc |-> "running"])]
    /\ mpc' = k

\* lines 70-80
MainStart ==
    /\ mpc = 0 /\ status = -1
    /\ out' = out \o <<[msg |-> "Starting data collection for repository", path |-> <<>>],
                       LineEnd>>
    /\ MainWrite(1)
    /\ UNCHANGED <<fs, clock, status>>

\* lines 84-85
MainSonar ==
    /\ mpc = 1 /\ proc[1].pc \in {"returned", "raised"}
    /\ AfterWrite(1, proc[1]) = 2
    /\ MainWrite(2)
    /\ UNCHANGED <<fs, out, clock, status>>

\* lines 88-92
MainAi ==
    /\ mpc = 2 /\ proc[1].pc \in {"returned", "raised"}
    /\ AfterWrite(2, proc[1]) = 3
    /\ MainWrite(3)
    /\ UNCHANGED <<fs, out, clock, status>>

\* lines 95-100
MainCoverage ==
    /\ mpc = 3 /\ proc[1].pc \in {"returned", "raised"}
    /\ AfterWrite(3, proc[1]) = 4
    /\ MainWrite(4)
    /\ UNCHANGED <<fs, out, clock, status>>

\* line 102, and the script's end: exit status 0
MainEnd ==
    /\ mpc = 4 /\ proc[1].pc \in {"returned", "raised"}
    /\ AfterWrite(4, proc[1]) = 5
    /\ out' = out \o <<[msg |-> "Data collection completed.", path |-> <<>>], LineEnd>>
    /\ hist' = [hist EXCEPT !.calls[4].pc = proc[1].pc]
    /\ mpc' = 5
    /\ status' = 0
    /\ UNCHANGED <<fs, proc, clock>>

\* an exception of write_json_log leaves main and line 111 uncaught: exit status 1
MainRaise ==
    /\ mpc \in 1..4 /\ proc[1].pc \in {"returned", "raised"}
    /\ AfterWrite(mpc, proc[1]) = 6
    /\ hist' = [hist EXCEPT !.calls[mpc].pc = proc[1].pc]
    /\ mpc' = 6
    /\ status' = 1
    /\ UNCHANGED <<fs, proc, out, clock>>

\* time passes while the script runs
Tick ==
    /\ status = -1
    /\ clock < MaxClock
    /\ clock' = clock + 1
    /\ UNCHANGED <<fs, proc, out, hist, mpc, status>>

NextMain ==
    \/ MainStart
    \/ MainSonar
    \/ MainAi
    \/ MainCoverage
    \/ MainEnd
    \/ MainRaise
    \/ write_json_log(1)
    \/ Tick

SpecMain == InitMain /\ [][NextMain]_vars
(***************************************************************************)
(* Properties of main under SpecMain                                       *)
(***************************************************************************)
FourNames ==
    <<"commit_metadata.json", "sonar_metrics.json", "ai_interactions.json", "coverage.json">>

\* d is absent from f, or an empty directory of it
AbsentOrEmpty(f, d) ==
    /\ \A q \in DirChain(d) : q \notin DOMAIN f.files
    /\ \A q \in f.dirs \cup DOMAIN f.files : Parent(q) # Components(d) \/ q = <<>>

\* the value of key in a parsed document
ValueAt(doc, key) ==
    IF doc.t = "dict" /\ \E n \in 1..Len(doc.items) : doc.items[n][1] = Str(key)
    THEN doc.items[CHOOSE n \in 1..Len(doc.items) : doc.items[n][1] = Str(key)][2]
    ELSE Unset

\* C5: after main has run to completion on an absent or empty output directory,
\* the directory holds exactly the four documents, each parses to the record
\* produced for it (coverage.json to 1000, 850 and 85.0), and the exit status is 0.
C5_EndToEnd ==
    (mpc = 5 /\ AbsentOrEmpty(hist.pre, hist.output_dir)) =>
        LET d == hist.output_dir
            c == Components(d)
            cov == ReadBack(fs, Join(d, <<"coverage.json">>))
        IN /\ {q \in DOMAIN fs.files \cup fs.dirs : Parent(q) = c /\ q # <<>>}
                  = {Append(c, FourNames[k]) : k \in 1..4}
           /\ {Append(c, FourNames[k]) : k \in 1..4} \subseteq DOMAIN fs.files
           /\ Len(hist.calls) = 4
           /\ \A k \in 1..4 :
                  /\ hist.calls[k].filename = FourNames[k]
                  /\ ReadBack(fs, Join(d, <<FourNames[k]>>))
                         = [ok |-> TRUE, v |-> DocOf(hist.calls[k].data)]
           /\ hist.calls[1].data \in {commit_metadata(now) : now \in 0..MaxClock}
           /\ hist.calls[2].data = run_sonarqube_analysis
           /\ hist.calls[3].data \in {capture_ai_interactions(prompt_text, response_text, now) :
                                          now \in 0..MaxClock}
           /\ cov.ok
           /\ Len(cov.v.items) = 3
           /\ ValueAt(cov.v, total_lines) = Int_(1000)
           /\ ValueAt(cov.v, covered_lines) = Int_(850)
           /\ ValueAt(cov.v, coverage_percent) = Float(850)
           /\ status = 0

C5_Witness ==
    /\ mpc = 5
    /\ hist.pre = EmptyFS
    /\ hist.output_dir = <<".", "/", "logs">>
    /\ Cardinality(DOMAIN fs.files) = 4
    /\ status = 0

\* C10: main makes its writes in the fixed order, each once, and a write only
\* after every earlier one has returned; when a write has failed and main has
\* ended, that write is the last one made, the earlier documents are in place,
\* the later ones are as they were before the run, no completion notice has
\* been printed, and the exit status is not 0.
C10_FailurePropagation ==
    LET c == Components(hist.output_dir)
        k == Len(hist.calls)
    IN /\ k <= 4
       /\ \A i \in 1..k : hist.calls[i].filename = FourNames[i]
       /\ \A i \in 1..(k - 1) : hist.calls[i].pc = "returned"
       /\ (\E n \in 1..Len(out) : out[n].msg = "Data collection completed.")
              => (k = 4 /\ hist.calls[4].pc = "returned")
       /\ status = 0 => (k = 4 /\ hist.calls[4].pc = "returned")
       /\ (k > 0 /\ proc[1].pc = "raised") => mpc \in {k, 6}
       /\ mpc = 6 =>
              /\ proc[1].pc = "raised"
              /\ proc[1].filename = <<FourNames[k]>>
              /\ hist.calls[k].pc = "raised"
              /\ status = 1
              /\ \A n \in 1..Len(out) : out[n].msg # "Data collection completed."
              /\ Cardinality({n \in 1..Len(out) : out[n].msg = "Wrote log to"}) = k - 1
              /\ \A i \in 1..(k - 1) :
                     /\ Append(c, FourNames[i]) \in DOMAIN fs.files
                     /\ fs.files[Append(c, FourNames[i])] = JsonDump(hist.calls[i].data).out
              /\ \A i \in (k + 1)..4 :
                     LET q == Append(c, FourNames[i])
                     IN /\ q \in DOMAIN fs.files <=> q \in DOMAIN hist.pre.files
                        /\ q \in fs.dirs <=> q \in hist.pre.dirs
                        /\ q \in DOMAIN fs.files => fs.files[q] = hist.pre.files[q]

C10_Witness ==
    /\ mpc = 6
    /\ Len(hist.calls) = 3
    /\ hist.pre = Taken(<<".", "/", "logs">>, 3)
    /\ proc[1].exc = "IsADirectoryError"
    /\ {<<"logs", "commit_metadata.json">>, <<"logs", "sonar_metrics.json">>} = DOMAIN fs.files
    /\ status = 1
====
